---- MODULE Spec2Model ----
(***************************************************************************)
(* Model of the lead-conversion pipeline of src/main.py: the two           *)
(* earliest-purchase selectors (process_credit_packs, process_memberships),*)
(* the composer (create_client_conversion_events), the expander            *)
(* (create_lead_conversions), the fallback loader                          *)
(* (read_conversion_events_part2) and the control flow of main.            *)
(*                                                                         *)
(* Python values are modelled as follows.                                  *)
(*  - A string-valued cell is a TLA+ string; None is NULL, a key that a    *)
(*    dict does not have yet is ABSENT, '' is "".                          *)
(*  - A date/time cell is a record [f, t]: f is the textual form of the    *)
(*    cell and t the instant it denotes (all instants of the bounded       *)
(*    domain are UTC, so the order of the canonical strings is the order   *)
(*    of t).  Forms: "none" (None), "empty" (''), "garbage" (a text no     *)
(*    format of parse_custom_datetime accepts), "z" ('...T00:00:00Z'),     *)
(*    "date" ('YYYY-MM-DD'), "iso" (the canonical output of                *)
(*    isoformat(timespec='milliseconds')).                                 *)
(*  - A *_details cell is a record [kind, name, source]: kind "dict" for a *)
(*    parsed JSON object, "str" for a cell that is not a dict.             *)
(***************************************************************************)
EXTENDS Integers, Sequences, FiniteSets, TLC

\* ------------------------------------------------------------ bounds ----
\* main: distinct purchase instants, roster length, purchase rows of the two
\* purchase files together, rows of the fallback file.
MaxTime == 2
MaxUsers == 2
MaxPurchases == 2
MaxFallbackRows == 1
\* the selectors on their own: distinct purchase instants, rows of the list.
MaxSelTime == 3
MaxStream == 3

\* --------------------------------------------------- program constants ---
SentinelTime == 9999

NULL == "<None>"
ABSENT == "<absent>"

NoneTime == [f |-> "none", t |-> 0]
EmptyTime == [f |-> "empty", t |-> 0]
GarbageTime == [f |-> "garbage", t |-> 0]
ZTime(t) == [f |-> "z", t |-> t]
DateTime(t) == [f |-> "date", t |-> t]
IsoTime(t) == [f |-> "iso", t |-> t]

SentinelStr == ZTime(SentinelTime)
DefaultCurrent == DateTime(SentinelTime)

\* ----------------------------------------------------------- utilities ---
\* Python truthiness of a string cell / of a date-time cell.
Truthy(s) == s # NULL /\ s # ABSENT /\ s # ""
TruthyTime(d) == d.f \notin {"none", "empty"}

\* parse_custom_datetime: None for a falsy or unparsable text, else the
\* canonical text of the instant.
parse_custom_datetime(dt_str) ==
    IF ~TruthyTime(dt_str) THEN NoneTime
    ELSE IF dt_str.f \in {"z", "date", "iso"} THEN IsoTime(dt_str.t)
    ELSE NoneTime

\* Comparison of two canonical texts (str.__lt__ / str.__le__).
StrLess(a, b) == a.t < b.t
StrLessEq(a, b) == a.t <= b.t

\* ---------------------------------------------------------- input rows ---
UserIds == {"u1", "u2"}
CreditIds == <<"c1", "c2", "c3", "c4", "c5">>
MembershipIds == <<"m1", "m2", "m3", "m4", "m5">>

GoodCreditDetails == [kind |-> "dict", name |-> "PackA", source |-> "web"]
GoodMembershipDetails == [kind |-> "dict", name |-> "Gold", source |-> "app"]
EmptyDetails == [kind |-> "str", name |-> NULL, source |-> NULL]
MalformedJson == [kind |-> "badjson", name |-> NULL, source |-> NULL]

\* The date/time texts a purchase file may hold in its purchased_at column:
\* nothing, a text that does not parse, or one of n instants.
FileTimes(n) == {EmptyTime, GarbageTime} \cup {ZTime(t) : t \in 1..n}

\* What one line of a purchase file may hold: [user_id, has_id, at, details].
\* The item id of line i is the i-th id of the file (ids are unique), or ''.
RowChoices(good) ==
    {[user_id |-> u, has_id |-> TRUE, at |-> a, details |-> good] :
        u \in UserIds, a \in FileTimes(MaxSelTime)}
    \cup {[user_id |-> "u1", has_id |-> FALSE, at |-> ZTime(1), details |-> good],
          [user_id |-> "", has_id |-> TRUE, at |-> ZTime(1), details |-> good],
          [user_id |-> "u1", has_id |-> TRUE, at |-> ZTime(1), details |-> EmptyDetails],
          [user_id |-> "u2", has_id |-> TRUE, at |-> ZTime(2), details |-> MalformedJson]}

\* The lines of the purchase files of a run of main.
MainRowChoices(good) ==
    {[user_id |-> "u1", has_id |-> TRUE, at |-> a, details |-> good] :
        a \in FileTimes(MaxTime)}
    \cup {[user_id |-> "u2", has_id |-> TRUE, at |-> ZTime(1), details |-> MalformedJson]}

CreditLine(i, c) ==
    [user_id |-> c.user_id,
     credit_pack_id |-> IF c.has_id THEN CreditIds[i] ELSE "",
     credit_pack_purchased_at |-> c.at,
     credit_pack_purchase_details |-> c.details,
     credit_pack_name |-> ABSENT,
     credit_pack_source |-> ABSENT]

MembershipLine(i, c) ==
    [user_id |-> c.user_id,
     membership_id |-> IF c.has_id THEN MembershipIds[i] ELSE "",
     membership_purchased_at |-> c.at,
     membership_purchase_details |-> c.details,
     membership_name |-> ABSENT,
     membership_source |-> ABSENT]

\* The file whose k lines hold the choices f[1], ..., f[k].
CreditFile(k, f) == [i \in 1..k |-> CreditLine(i, f[i])]

MembershipFile(k, f) == [i \in 1..k |-> MembershipLine(i, f[i])]

UserLine(u) == [user_id |-> u, branch_id |-> "b1", created_at |-> ZTime(1)]

UserFile(k, f) == [i \in 1..k |-> UserLine(f[i])]

\* ------------------------------------------------------------ read_csv ---
\* A declared datetime column is replaced by its canonical text when it
\* parses and is left as it is otherwise.
ReadTime(cell) ==
    IF TruthyTime(cell) /\ parse_custom_datetime(cell) # NoneTime
    THEN parse_custom_datetime(cell) ELSE cell

\* A *_details column: JSON text becomes a dict, malformed JSON becomes {},
\* an empty cell stays ''.
ReadDetails(cell) ==
    IF cell.kind = "badjson" THEN [kind |-> "dict", name |-> NULL, source |-> NULL]
    ELSE cell

read_csv_credits(file) ==
    [i \in 1..Len(file) |->
        [file[i] EXCEPT !.credit_pack_purchased_at = ReadTime(@),
                        !.credit_pack_purchase_details = ReadDetails(@)]]

read_csv_memberships(file) ==
    [i \in 1..Len(file) |->
        [file[i] EXCEPT !.membership_purchased_at = ReadTime(@),
                        !.membership_purchase_details = ReadDetails(@)]]

read_csv_users(file) ==
    [i \in 1..Len(file) |-> [file[i] EXCEPT !.created_at = ReadTime(@)]]

\* ------------------------------------------------------------ selector ---
NoCreditRow ==
    [user_id |-> ABSENT, credit_pack_id |-> ABSENT,
     credit_pack_purchased_at |-> NoneTime,
     credit_pack_purchase_details |-> EmptyDetails,
     credit_pack_name |-> ABSENT, credit_pack_source |-> ABSENT]

NoMembershipRow ==
    [user_id |-> ABSENT, membership_id |-> ABSENT,
     membership_purchased_at |-> NoneTime,
     membership_purchase_details |-> EmptyDetails,
     membership_name |-> ABSENT, membership_source |-> ABSENT]

EmptyCredits == [u \in UserIds |-> NoCreditRow]
EmptyMemberships == [u \in UserIds |-> NoMembershipRow]

\* details.get('name') if isinstance(details, dict) else None
DetailName(details) == IF details.kind = "dict" THEN details.name ELSE NULL
DetailSource(details) == IF details.kind = "dict" THEN details.source ELSE NULL

\* The replacement test of the fold ("new_date and current_date and
\* new_date < current_date"); a user not yet in result is handled by the
\* caller.
ReplacesMutLe(new_date, current_date) ==
    new_date # NoneTime /\ current_date # NoneTime /\ StrLessEq(new_date, current_date)

Replaces(new_date, current_date) ==
    new_date # NoneTime /\ current_date # NoneTime /\ StrLess(new_date, current_date)

\* The row as the loop body leaves it (name, source, details and
\* purchased_at are written back into the row).
CreditRowUpdateMutSentinel(row) ==
    [row EXCEPT
        !.credit_pack_name = DetailName(row.credit_pack_purchase_details),
        !.credit_pack_source = DetailSource(row.credit_pack_purchase_details),
        !.credit_pack_purchase_details =
            [kind |-> "dict", name |-> DetailName(row.credit_pack_purchase_details),
             source |-> DetailSource(row.credit_pack_purchase_details)],
        !.credit_pack_purchased_at =
            IF parse_custom_datetime(row.credit_pack_purchased_at) # NoneTime
            THEN row.credit_pack_purchased_at ELSE SentinelStr]

CreditRowUpdate(row) ==
    [row EXCEPT
        !.credit_pack_name = DetailName(row.credit_pack_purchase_details),
        !.credit_pack_source = DetailSource(row.credit_pack_purchase_details),
        !.credit_pack_purchase_details =
            [kind |-> "dict", name |-> DetailName(row.credit_pack_purchase_details),
             source |-> DetailSource(row.credit_pack_purchase_details)],
        !.credit_pack_purchased_at =
            IF TruthyTime(row.credit_pack_purchased_at)
            THEN row.credit_pack_purchased_at ELSE SentinelStr]

MembershipRowUpdate(row) ==
    [row EXCEPT
        !.membership_name = DetailName(row.membership_purchase_details),
        !.membership_source = DetailSource(row.membership_purchase_details),
        !.membership_purchase_details =
            [kind |-> "dict", name |-> DetailName(row.membership_purchase_details),
             source |-> DetailSource(row.membership_purchase_details)],
        !.membership_purchased_at =
            IF TruthyTime(row.membership_purchased_at)
            THEN row.membership_purchased_at ELSE SentinelStr]

\* The fold of process_credit_packs from row i on: st.data is the list with
\* the rows updated so far, st.result the dict built so far.
RECURSIVE credit_fold(_, _)
credit_fold(st, i) ==
    IF i > Len(st.data) THEN st
    ELSE LET row == st.data[i]
             user_id == row.user_id
         IN IF ~Truthy(user_id) \/ ~Truthy(row.credit_pack_id)
            THEN credit_fold(st, i + 1)
            ELSE LET new_row == CreditRowUpdate(row)
                     in_result == st.result[user_id] # NoCreditRow
                     current_date ==
                         parse_custom_datetime(
                             IF in_result
                             THEN st.result[user_id].credit_pack_purchased_at
                             ELSE DefaultCurrent)
                     new_date == parse_custom_datetime(new_row.credit_pack_purchased_at)
                     store == ~in_result \/ Replaces(new_date, current_date)
                 IN credit_fold(
                        [data |-> [st.data EXCEPT ![i] = new_row],
                         result |-> IF store
                                    THEN [st.result EXCEPT ![user_id] = new_row]
                                    ELSE st.result],
                        i + 1)

process_credit_packs(data) ==
    credit_fold([data |-> data, result |-> EmptyCredits], 1)

RECURSIVE membership_fold(_, _)
membership_fold(st, i) ==
    IF i > Len(st.data) THEN st
    ELSE LET row == st.data[i]
             user_id == row.user_id
         IN IF ~Truthy(user_id) \/ ~Truthy(row.membership_id)
            THEN membership_fold(st, i + 1)
            ELSE LET new_row == MembershipRowUpdate(row)
                     in_result == st.result[user_id] # NoMembershipRow
                     current_date ==
                         parse_custom_datetime(
                             IF in_result
                             THEN st.result[user_id].membership_purchased_at
                             ELSE DefaultCurrent)
                     new_date == parse_custom_datetime(new_row.membership_purchased_at)
                     store == ~in_result \/ Replaces(new_date, current_date)
                 IN membership_fold(
                        [data |-> [st.data EXCEPT ![i] = new_row],
                         result |-> IF store
                                    THEN [st.result EXCEPT ![user_id] = new_row]
                                    ELSE st.result],
                        i + 1)

process_memberships(data) ==
    membership_fold([data |-> data, result |-> EmptyMemberships], 1)

\* ------------------------------------------------------------ composer ---
TimeFields ==
    {"local_user_created_at", "client_conversion_event_local_created_at",
     "first_local_membership_purchased_at", "first_local_credit_pack_purchased_at"}

\* The event with its default values (a LEAD with no conversion).
DefaultEvent(user) ==
    [user_id |-> user.user_id,
     branch_id |-> user.branch_id,
     local_user_created_at |-> user.created_at,
     lead_status |-> "LEAD",
     client_conversion_event_type |-> NULL,
     client_conversion_event_id |-> NULL,
     client_conversion_event_local_created_at |-> NoneTime,
     client_conversion_event_name |-> NULL,
     client_conversion_event_source |-> NULL,
     first_user_membership_id |-> NULL,
     first_local_membership_purchased_at |-> NoneTime,
     first_membership_name |-> NULL,
     first_membership_source |-> NULL,
     first_credit_pack_id |-> NULL,
     first_local_credit_pack_purchased_at |-> NoneTime,
     first_credit_pack_name |-> NULL,
     first_credit_pack_source |-> NULL]

\* "user_id in credits": the dict is a function that maps the ids it does not
\* hold to the marker none.
InDict(dict, user_id, none) == user_id \in DOMAIN dict /\ dict[user_id] # none

\* dict.get of a key the selector may not have written.
Get(v) == IF v = ABSENT THEN NULL ELSE v

\* "if not user_id: continue"
SkipUserMutNever(user_id) == FALSE

SkipUser(user_id) == ~Truthy(user_id)

\* Which purchase the conversion-event fields mirror: the nested if of the
\* composer.  NULL leaves the five fields at their defaults.
ConversionTypeMutStrict(has_credit, has_membership, credit_time, membership_time) ==
    IF has_credit /\ has_membership
    THEN IF credit_time # NoneTime /\ membership_time # NoneTime
         THEN IF StrLess(credit_time, membership_time) THEN "USER_CREDIT" ELSE "MEMBERSHIP"
         ELSE NULL
    ELSE IF has_credit THEN "USER_CREDIT"
    ELSE IF has_membership THEN "MEMBERSHIP"
    ELSE NULL

ConversionTypeMutDefault(has_credit, has_membership, credit_time, membership_time) ==
    IF has_credit /\ has_membership
    THEN IF credit_time # NoneTime /\ membership_time # NoneTime
              /\ StrLessEq(credit_time, membership_time)
         THEN "USER_CREDIT" ELSE "MEMBERSHIP"
    ELSE IF has_credit THEN "USER_CREDIT"
    ELSE IF has_membership THEN "MEMBERSHIP"
    ELSE NULL

ConversionType(has_credit, has_membership, credit_time, membership_time) ==
    IF has_credit /\ has_membership
    THEN IF credit_time # NoneTime /\ membership_time # NoneTime
         THEN IF StrLessEq(credit_time, membership_time) THEN "USER_CREDIT" ELSE "MEMBERSHIP"
         ELSE NULL
    ELSE IF has_credit THEN "USER_CREDIT"
    ELSE IF has_membership THEN "MEMBERSHIP"
    ELSE NULL

\* event.update(...) with the credit purchase / with the membership purchase
MirrorCredit(event) ==
    [event EXCEPT
        !.client_conversion_event_type = "USER_CREDIT",
        !.client_conversion_event_id = event.first_credit_pack_id,
        !.client_conversion_event_local_created_at = event.first_local_credit_pack_purchased_at,
        !.client_conversion_event_name = event.first_credit_pack_name,
        !.client_conversion_event_source = event.first_credit_pack_source]

MirrorMembership(event) ==
    [event EXCEPT
        !.client_conversion_event_type = "MEMBERSHIP",
        !.client_conversion_event_id = event.first_user_membership_id,
        !.client_conversion_event_local_created_at = event.first_local_membership_purchased_at,
        !.client_conversion_event_name = event.first_membership_name,
        !.client_conversion_event_source = event.first_membership_source]

\* The body of the composer's loop for one user with a user_id.
ComposeEvent(user, credits, memberships) ==
    LET user_id == user.user_id
        has_credit == InDict(credits, user_id, NoCreditRow)
        has_membership == InDict(memberships, user_id, NoMembershipRow)
        credit == IF has_credit THEN credits[user_id] ELSE NoCreditRow
        membership == IF has_membership THEN memberships[user_id] ELSE NoMembershipRow
        e0 == DefaultEvent(user)
        e1 == IF has_credit
              THEN [e0 EXCEPT
                      !.first_credit_pack_id = Get(credit.credit_pack_id),
                      !.first_local_credit_pack_purchased_at = credit.credit_pack_purchased_at,
                      !.first_credit_pack_name = Get(credit.credit_pack_name),
                      !.first_credit_pack_source = Get(credit.credit_pack_source)]
              ELSE e0
        e2 == IF has_membership
              THEN [e1 EXCEPT
                      !.first_user_membership_id = Get(membership.membership_id),
                      !.first_local_membership_purchased_at = membership.membership_purchased_at,
                      !.first_membership_name = Get(membership.membership_name),
                      !.first_membership_source = Get(membership.membership_source)]
              ELSE e1
        e3 == IF has_credit \/ has_membership
              THEN [e2 EXCEPT !.lead_status = "CLIENT"] ELSE e2
        credit_time == parse_custom_datetime(e3.first_local_credit_pack_purchased_at)
        membership_time == parse_custom_datetime(e3.first_local_membership_purchased_at)
        type == ConversionType(has_credit, has_membership, credit_time, membership_time)
    IN IF type = "USER_CREDIT" THEN MirrorCredit(e3)
       ELSE IF type = "MEMBERSHIP" THEN MirrorMembership(e3)
       ELSE e3

RECURSIVE compose_loop(_, _, _, _, _)
compose_loop(users, credits, memberships, i, results) ==
    IF i > Len(users) THEN results
    ELSE IF SkipUser(users[i].user_id)
         THEN compose_loop(users, credits, memberships, i + 1, results)
         ELSE compose_loop(users, credits, memberships, i + 1,
                           Append(results, ComposeEvent(users[i], credits, memberships)))

create_client_conversion_events(users, credits, memberships) ==
    compose_loop(users, credits, memberships, 1, <<>>)

\* ------------------------------------------------------------ expander ---
\* The type of the ALL record: whichever purchase came first.
AllEventTypeMutStrict(has_membership, has_credit, credit_dt, membership_dt) ==
    IF has_membership /\ has_credit
    THEN IF credit_dt # NoneTime /\ membership_dt # NoneTime
         THEN IF StrLess(credit_dt, membership_dt) THEN "USER_CREDIT" ELSE "MEMBERSHIP"
         ELSE NULL
    ELSE IF has_membership THEN "MEMBERSHIP"
    ELSE IF has_credit THEN "USER_CREDIT"
    ELSE NULL

AllEventType(has_membership, has_credit, credit_dt, membership_dt) ==
    IF has_membership /\ has_credit
    THEN IF credit_dt # NoneTime /\ membership_dt # NoneTime
         THEN IF StrLessEq(credit_dt, membership_dt) THEN "USER_CREDIT" ELSE "MEMBERSHIP"
         ELSE NULL
    ELSE IF has_membership THEN "MEMBERSHIP"
    ELSE IF has_credit THEN "USER_CREDIT"
    ELSE NULL

\* event.copy() followed by update({...type fields..., filter})
WithFilter(event, filter) ==
    [k \in DOMAIN event \cup {"client_conversion_event_filter"} |->
        IF k = "client_conversion_event_filter" THEN filter ELSE event[k]]

MembershipRecord(event, filter) == WithFilter(MirrorMembership(event), filter)
CreditRecord(event, filter) == WithFilter(MirrorCredit(event), filter)

\* The records the expander's loop body appends for one event.
ExpandEventMutOrder(event) ==
    IF event.lead_status # "CLIENT" THEN <<>>
    ELSE LET has_membership == event.first_user_membership_id # NULL
             has_credit == event.first_credit_pack_id # NULL
         IN IF ~has_membership /\ ~has_credit THEN <<>>
            ELSE LET membership_dt ==
                         parse_custom_datetime(event.first_local_membership_purchased_at)
                     credit_dt ==
                         parse_custom_datetime(event.first_local_credit_pack_purchased_at)
                     all_event_type ==
                         AllEventType(has_membership, has_credit, credit_dt, membership_dt)
                 IN (IF has_credit
                     THEN <<CreditRecord(event, "USER_CREDIT")>> ELSE <<>>)
                    \o (IF has_membership
                        THEN <<MembershipRecord(event, "MEMBERSHIP")>> ELSE <<>>)
                    \o (IF all_event_type = "MEMBERSHIP"
                        THEN <<MembershipRecord(event, "ALL")>>
                        ELSE IF all_event_type = "USER_CREDIT"
                        THEN <<CreditRecord(event, "ALL")>>
                        ELSE <<>>)

ExpandEvent(event) ==
    IF event.lead_status # "CLIENT" THEN <<>>
    ELSE LET has_membership == event.first_user_membership_id # NULL
             has_credit == event.first_credit_pack_id # NULL
         IN IF ~has_membership /\ ~has_credit THEN <<>>
            ELSE LET membership_dt ==
                         parse_custom_datetime(event.first_local_membership_purchased_at)
                     credit_dt ==
                         parse_custom_datetime(event.first_local_credit_pack_purchased_at)
                     all_event_type ==
                         AllEventType(has_membership, has_credit, credit_dt, membership_dt)
                 IN (IF has_membership
                     THEN <<MembershipRecord(event, "MEMBERSHIP")>> ELSE <<>>)
                    \o (IF has_credit
                        THEN <<CreditRecord(event, "USER_CREDIT")>> ELSE <<>>)
                    \o (IF all_event_type = "MEMBERSHIP"
                        THEN <<MembershipRecord(event, "ALL")>>
                        ELSE IF all_event_type = "USER_CREDIT"
                        THEN <<CreditRecord(event, "ALL")>>
                        ELSE <<>>)

RECURSIVE expand_loop(_, _, _)
expand_loop(events, i, records) ==
    IF i > Len(events) THEN records
    ELSE expand_loop(events, i + 1, records \o ExpandEvent(events[i]))

create_lead_conversions(events) == expand_loop(events, 1, <<>>)

\* ------------------------------------------------------ fallback loader ---
\* The rows a fallback file may hold: every cell of a CSV row is a string
\* ('' for an empty cell).
FbBase(status) ==
    [user_id |-> "u1", branch_id |-> "b1", local_user_created_at |-> IsoTime(1),
     lead_status |-> status,
     client_conversion_event_type |-> "", client_conversion_event_id |-> "",
     client_conversion_event_local_created_at |-> EmptyTime,
     client_conversion_event_name |-> "", client_conversion_event_source |-> "",
     first_user_membership_id |-> "", first_local_membership_purchased_at |-> EmptyTime,
     first_membership_name |-> "", first_membership_source |-> "",
     first_credit_pack_id |-> "", first_local_credit_pack_purchased_at |-> EmptyTime,
     first_credit_pack_name |-> "", first_credit_pack_source |-> ""]

FbWithMembership(e, t) ==
    [e EXCEPT !.first_user_membership_id = "m1",
              !.first_local_membership_purchased_at = IsoTime(t),
              !.first_membership_name = "Gold", !.first_membership_source = "app"]

FbWithCredit(e, t) ==
    [e EXCEPT !.first_credit_pack_id = "c1",
              !.first_local_credit_pack_purchased_at = IsoTime(t),
              !.first_credit_pack_name = "PackA", !.first_credit_pack_source = "web"]

FallbackRows ==
    {FbBase("LEAD"),
     MirrorMembership(FbWithMembership(FbBase("CLIENT"), 1)),
     MirrorCredit(FbWithCredit(FbBase("CLIENT"), 1)),
     MirrorMembership(FbWithCredit(FbWithMembership(FbBase("CLIENT"), 1), 2))}

NoFile == [status |-> "unread", rows |-> <<>>]

FallbackFiles(n) ==
    {[status |-> "absent", rows |-> <<>>], [status |-> "unreadable", rows |-> <<>>]}
    \cup UNION {{[status |-> "ok", rows |-> r] : r \in [1..k -> FallbackRows]} : k \in 0..n}

\* read_conversion_events_part2: [] for a file that does not exist or cannot
\* be read, else its data rows.
read_conversion_events_part2(file) ==
    IF file.status = "ok" THEN file.rows ELSE <<>>

\* ----------------------------------------------------------- write_csv ---
CsvStr(v) == IF v = NULL THEN "" ELSE v
CsvTime(v) == IF v = NoneTime THEN EmptyTime ELSE v

CsvRow(r) ==
    [k \in DOMAIN r |-> IF k \in TimeFields THEN CsvTime(r[k]) ELSE CsvStr(r[k])]

NotWritten == [written |-> FALSE, rows |-> <<>>]

write_csv(data) ==
    [written |-> TRUE, rows |-> [i \in 1..Len(data) |-> CsvRow(data[i])]]

\* ---------------------------------------------------------------- main ---
VARIABLES pc, part2_only, users, credit_data, membership_data, credits,
          memberships, client_events, lead_conversions, fallback_file,
          fallback_events, out_events, out_leads, trace

vars == <<pc, part2_only, users, credit_data, membership_data, credits,
          memberships, client_events, lead_conversions, fallback_file,
          fallback_events, out_events, out_leads, trace>>

\* "if lead_conversions: ... else: <fallback>"
NeedsFallbackMutAlways(leads) == TRUE

NeedsFallback(leads) == leads = <<>>

\* "if lead_conversions: write_csv(lead_conversions, ...)"
WritesLeadsMutAlways(leads) == TRUE

WritesLeads(leads) == leads # <<>>

Init ==
    /\ pc = "start"
    /\ part2_only \in BOOLEAN
    /\ users = <<>>
    /\ credit_data = <<>>
    /\ membership_data = <<>>
    /\ credits = EmptyCredits
    /\ memberships = EmptyMemberships
    /\ client_events = <<>>
    /\ lead_conversions = <<>>
    /\ fallback_file = NoFile
    /\ fallback_events = <<>>
    /\ out_events = NotWritten
    /\ out_leads = NotWritten
    /\ trace = <<>>

\* The three read_csv calls of the full pipeline.
LoadData ==
    /\ pc = "start"
    /\ ~part2_only
    /\ \E k \in 0..MaxUsers : \E f \in [1..k -> UserIds \cup {""}] :
          users' = read_csv_users(UserFile(k, f))
    /\ \E kc \in 0..MaxPurchases : \E km \in 0..(MaxPurchases - kc) :
          /\ \E f \in [1..kc -> MainRowChoices(GoodCreditDetails)] :
                credit_data' = read_csv_credits(CreditFile(kc, f))
          /\ \E f \in [1..km -> MainRowChoices(GoodMembershipDetails)] :
                membership_data' = read_csv_memberships(MembershipFile(km, f))
    /\ pc' = "loaded"
    /\ UNCHANGED <<part2_only, credits, memberships, client_events, lead_conversions,
                   fallback_file, fallback_events, out_events, out_leads, trace>>

ProcessCreditPacks ==
    /\ pc = "loaded"
    /\ LET r == process_credit_packs(credit_data)
       IN /\ credit_data' = r.data
          /\ credits' = r.result
    /\ pc' = "credits_done"
    /\ trace' = Append(trace, "process_credit_packs")
    /\ UNCHANGED <<part2_only, users, membership_data, memberships, client_events,
                   lead_conversions, fallback_file, fallback_events, out_events,
                   out_leads>>

ProcessMemberships ==
    /\ pc = "credits_done"
    /\ LET r == process_memberships(membership_data)
       IN /\ membership_data' = r.data
          /\ memberships' = r.result
    /\ pc' = "memberships_done"
    /\ trace' = Append(trace, "process_memberships")
    /\ UNCHANGED <<part2_only, users, credit_data, credits, client_events,
                   lead_conversions, fallback_file, fallback_events, out_events,
                   out_leads>>

CreateClientConversionEvents ==
    /\ pc = "memberships_done"
    /\ client_events' = create_client_conversion_events(users, credits, memberships)
    /\ pc' = "composed"
    /\ trace' = Append(trace, "create_client_conversion_events")
    /\ UNCHANGED <<part2_only, users, credit_data, membership_data, credits,
                   memberships, lead_conversions, fallback_file, fallback_events,
                   out_events, out_leads>>

CreateLeadConversions ==
    /\ pc = "composed"
    /\ lead_conversions' = create_lead_conversions(client_events)
    /\ pc' = "expanded"
    /\ trace' = Append(trace, "create_lead_conversions")
    /\ UNCHANGED <<part2_only, users, credit_data, membership_data, credits,
                   memberships, client_events, fallback_file, fallback_events,
                   out_events, out_leads>>

\* Part 1 produced lead conversions: nothing else is read.
PrimarySucceeded ==
    /\ pc = "expanded"
    /\ ~NeedsFallback(lead_conversions)
    /\ pc' = "write"
    /\ UNCHANGED <<part2_only, users, credit_data, membership_data, credits,
                   memberships, client_events, lead_conversions, fallback_file,
                   fallback_events, out_events, out_leads, trace>>

\* Part 1 produced nothing: the fallback file is read.
FallbackLoad ==
    /\ pc = "expanded"
    /\ NeedsFallback(lead_conversions)
    /\ \E file \in FallbackFiles(MaxFallbackRows) :
          /\ fallback_file' = file
          /\ fallback_events' = read_conversion_events_part2(file)
    /\ pc' = "fallback_loaded"
    /\ trace' = Append(trace, "read_conversion_events_part2")
    /\ UNCHANGED <<part2_only, users, credit_data, membership_data, credits,
                   memberships, client_events, lead_conversions, out_events, out_leads>>

FallbackExpand ==
    /\ pc = "fallback_loaded"
    /\ fallback_events # <<>>
    /\ lead_conversions' = create_lead_conversions(fallback_events)
    /\ pc' = "write"
    /\ trace' = Append(trace, "create_lead_conversions")
    /\ UNCHANGED <<part2_only, users, credit_data, membership_data, credits,
                   memberships, client_events, fallback_file, fallback_events,
                   out_events, out_leads>>

\* "Fallback file is missing or empty"
FallbackFailed ==
    /\ pc = "fallback_loaded"
    /\ fallback_events = <<>>
    /\ pc' = "write"
    /\ UNCHANGED <<part2_only, users, credit_data, membership_data, credits,
                   memberships, client_events, lead_conversions, fallback_file,
                   fallback_events, out_events, out_leads, trace>>

\* The two write_csv calls that end the full pipeline.
WriteOutputs ==
    /\ pc = "write"
    /\ out_events' = write_csv(client_events)
    /\ out_leads' = IF WritesLeads(lead_conversions)
                    THEN write_csv(lead_conversions) ELSE out_leads
    /\ pc' = "done"
    /\ UNCHANGED <<part2_only, users, credit_data, membership_data, credits,
                   memberships, client_events, lead_conversions, fallback_file,
                   fallback_events, trace>>

\* --part2_only: the fallback file is read first.
Part2Load ==
    /\ pc = "start"
    /\ part2_only
    /\ \E file \in FallbackFiles(MaxFallbackRows) :
          /\ fallback_file' = file
          /\ fallback_events' = read_conversion_events_part2(file)
    /\ pc' = "part2_loaded"
    /\ trace' = Append(trace, "read_conversion_events_part2")
    /\ UNCHANGED <<part2_only, users, credit_data, membership_data, credits,
                   memberships, client_events, lead_conversions, out_events, out_leads>>

\* "Failed to load fallback data": return
Part2Failed ==
    /\ pc = "part2_loaded"
    /\ fallback_events = <<>>
    /\ pc' = "done"
    /\ UNCHANGED <<part2_only, users, credit_data, membership_data, credits,
                   memberships, client_events, lead_conversions, fallback_file,
                   fallback_events, out_events, out_leads, trace>>

Part2Expand ==
    /\ pc = "part2_loaded"
    /\ fallback_events # <<>>
    /\ LET leads == create_lead_conversions(fallback_events)
       IN /\ lead_conversions' = leads
          /\ out_leads' = IF leads # <<>> THEN write_csv(leads) ELSE out_leads
    /\ pc' = "done"
    /\ trace' = Append(trace, "create_lead_conversions")
    /\ UNCHANGED <<part2_only, users, credit_data, membership_data, credits,
                   memberships, client_events, fallback_file, fallback_events,
                   out_events>>

Next ==
    \/ LoadData
    \/ ProcessCreditPacks
    \/ ProcessMemberships
    \/ CreateClientConversionEvents
    \/ CreateLeadConversions
    \/ PrimarySucceeded
    \/ FallbackLoad
    \/ FallbackExpand
    \/ FallbackFailed
    \/ WriteOutputs
    \/ Part2Load
    \/ Part2Failed
    \/ Part2Expand

Spec == Init /\ [][Next]_vars

\* --------------------------------------------- the selectors on their own ---
\* The selectors applied to every purchase list of up to MaxStream rows that
\* read_csv can hand them.
SelInit ==
    /\ part2_only = FALSE
    /\ users = <<>>
    /\ credits = EmptyCredits
    /\ memberships = EmptyMemberships
    /\ client_events = <<>>
    /\ lead_conversions = <<>>
    /\ fallback_file = NoFile
    /\ fallback_events = <<>>
    /\ out_events = NotWritten
    /\ out_leads = NotWritten
    /\ \/ /\ pc = "loaded"
          /\ trace = <<>>
          /\ \E k \in 0..MaxStream : \E f \in [1..k -> RowChoices(GoodCreditDetails)] :
                credit_data = read_csv_credits(CreditFile(k, f))
          /\ membership_data = <<>>
       \/ /\ pc = "credits_done"
          /\ trace = <<"process_credit_packs">>
          /\ credit_data = <<>>
          /\ \E k \in 0..MaxStream : \E f \in [1..k -> RowChoices(GoodMembershipDetails)] :
                membership_data = read_csv_memberships(MembershipFile(k, f))

SelNext ==
    \/ ProcessCreditPacks
    \/ ProcessMemberships

SelSpec == SelInit /\ [][SelNext]_vars

\* ------------------------------------------------------------- helpers ---
Range(seq) == {seq[i] : i \in 1..Len(seq)}

ComposerRan == pc \in {"composed", "expanded", "fallback_loaded", "write", "done"}

\* The number of records of user u that carry filter f.
Count(records, u, f) ==
    Cardinality({k \in 1..Len(records) :
                    records[k].user_id = u /\ records[k].client_conversion_event_filter = f})

EventsOf(events, u) == {i \in 1..Len(events) : events[i].user_id = u}

HasCreditRecord(u) == InDict(credits, u, NoCreditRow)
HasMembershipRecord(u) == InDict(memberships, u, NoMembershipRow)

Parsable(at) == parse_custom_datetime(at) # NoneTime

MirrorsCredit(e) ==
    /\ e.client_conversion_event_type = "USER_CREDIT"
    /\ e.client_conversion_event_id = e.first_credit_pack_id
    /\ e.client_conversion_event_local_created_at = e.first_local_credit_pack_purchased_at
    /\ e.client_conversion_event_name = e.first_credit_pack_name
    /\ e.client_conversion_event_source = e.first_credit_pack_source

MirrorsMembership(e) ==
    /\ e.client_conversion_event_type = "MEMBERSHIP"
    /\ e.client_conversion_event_id = e.first_user_membership_id
    /\ e.client_conversion_event_local_created_at = e.first_local_membership_purchased_at
    /\ e.client_conversion_event_name = e.first_membership_name
    /\ e.client_conversion_event_source = e.first_membership_source

ConversionFieldsNull(e) ==
    /\ e.client_conversion_event_type = NULL
    /\ e.client_conversion_event_id = NULL
    /\ e.client_conversion_event_local_created_at = NoneTime
    /\ e.client_conversion_event_name = NULL
    /\ e.client_conversion_event_source = NULL

FirstCreditPopulated(e, credit) ==
    /\ e.first_credit_pack_id = credit.credit_pack_id
    /\ e.first_local_credit_pack_purchased_at = credit.credit_pack_purchased_at
    /\ e.first_credit_pack_name = credit.credit_pack_name
    /\ e.first_credit_pack_source = credit.credit_pack_source

FirstMembershipPopulated(e, membership) ==
    /\ e.first_user_membership_id = membership.membership_id
    /\ e.first_local_membership_purchased_at = membership.membership_purchased_at
    /\ e.first_membership_name = membership.membership_name
    /\ e.first_membership_source = membership.membership_source

\* -------------------------------------------------------------- claims ---

\* C1 (as stated): the composer returns exactly one event per input user
\* record: the output is as long as the roster and the i-th event belongs to
\* the i-th user record.
C1_OnePerUserRecord ==
    ComposerRan =>
        /\ Len(client_events) = Len(users)
        /\ \A i \in 1..Len(users) : client_events[i].user_id = users[i].user_id

\* C1 (amended): the composer returns exactly one event per user record that
\* has a non-empty user_id, in roster order; records without a user_id get
\* no event.
C1_OnePerIdentifiedUser ==
    ComposerRan =>
        LET kept == SelectSeq(users, LAMBDA u : u.user_id # "")
        IN /\ Len(client_events) = Len(kept)
           /\ \A i \in 1..Len(kept) :
                 /\ client_events[i].user_id = kept[i].user_id
                 /\ client_events[i].branch_id = kept[i].branch_id
                 /\ client_events[i].local_user_created_at = kept[i].created_at

C1_Witness ==
    /\ ComposerRan
    /\ Len(users) = 2
    /\ users[1].user_id = ""
    /\ users[2].user_id = "u1"
    /\ Len(client_events) = 1
    /\ client_events[1].user_id = "u1"

\* C2: for every event of the composer the expander emits 3 records
\* (MEMBERSHIP, USER_CREDIT, ALL) for a CLIENT with both purchases, 2 records
\* (that type, ALL) for a CLIENT with one purchase and none for a LEAD; every
\* CLIENT event gets exactly one ALL record.
C2_FanOut ==
    pc = "expanded" =>
        \A u \in UserIds :
            \A i \in EventsOf(client_events, u) :
                LET e == client_events[i]
                    n == Cardinality(EventsOf(client_events, u))
                    has_m == e.first_user_membership_id # NULL
                    has_c == e.first_credit_pack_id # NULL
                    nm == Count(lead_conversions, u, "MEMBERSHIP")
                    nc == Count(lead_conversions, u, "USER_CREDIT")
                    na == Count(lead_conversions, u, "ALL")
                IN IF e.lead_status = "LEAD" THEN nm = 0 /\ nc = 0 /\ na = 0
                   ELSE /\ na = n
                        /\ nm = (IF has_m THEN n ELSE 0)
                        /\ nc = (IF has_c THEN n ELSE 0)
                        /\ has_m \/ has_c

\* C3: in every composed event lead_status is CLIENT iff the user has an
\* earliest-credit or an earliest-membership record, and the conversion type
\* is null iff lead_status is LEAD.
C3_EventInvariant ==
    ComposerRan =>
        \A i \in 1..Len(client_events) :
            LET e == client_events[i]
            IN /\ (e.lead_status = "CLIENT") <=>
                      (HasCreditRecord(e.user_id) \/ HasMembershipRecord(e.user_id))
               /\ (e.client_conversion_event_type = NULL) <=> (e.lead_status = "LEAD")

\* C6: when the earliest credit purchase and the earliest membership purchase
\* of a user have identical timestamps, the composed event has type
\* USER_CREDIT and the user's ALL record is the credit purchase (type, id,
\* timestamp, name, source).
C6_TieBreak ==
    pc = "expanded" =>
        \A u \in UserIds :
            (/\ HasCreditRecord(u) /\ HasMembershipRecord(u)
             /\ Parsable(credits[u].credit_pack_purchased_at)
             /\ parse_custom_datetime(credits[u].credit_pack_purchased_at)
                    = parse_custom_datetime(memberships[u].membership_purchased_at))
            => /\ \A i \in EventsOf(client_events, u) :
                     client_events[i].client_conversion_event_type = "USER_CREDIT"
               /\ Count(lead_conversions, u, "ALL")
                     = Cardinality(EventsOf(client_events, u))
               /\ \A k \in 1..Len(lead_conversions) :
                     (/\ lead_conversions[k].user_id = u
                      /\ lead_conversions[k].client_conversion_event_filter = "ALL")
                     => /\ lead_conversions[k].client_conversion_event_type = "USER_CREDIT"
                        /\ lead_conversions[k].client_conversion_event_id
                              = credits[u].credit_pack_id
                        /\ lead_conversions[k].client_conversion_event_local_created_at
                              = credits[u].credit_pack_purchased_at
                        /\ lead_conversions[k].client_conversion_event_name
                              = credits[u].credit_pack_name
                        /\ lead_conversions[k].client_conversion_event_source
                              = credits[u].credit_pack_source

C6_Witness ==
    /\ pc = "expanded"
    /\ HasCreditRecord("u1") /\ HasMembershipRecord("u1")
    /\ credits["u1"].credit_pack_purchased_at = IsoTime(2)
    /\ memberships["u1"].membership_purchased_at = IsoTime(2)
    /\ Len(client_events) = 1
    /\ client_events[1].user_id = "u1"
    /\ Len(lead_conversions) = 3
    /\ lead_conversions[3].client_conversion_event_filter = "ALL"
    /\ lead_conversions[3].client_conversion_event_type = "USER_CREDIT"

\* C7: for every user with both records the conversion-event fields mirror
\* the credit purchase when credit timestamp <= membership timestamp and the
\* membership purchase otherwise, and both first_* sub-records are populated.
C7_Mirror ==
    ComposerRan =>
        \A i \in 1..Len(client_events) :
            LET e == client_events[i]
                u == e.user_id
            IN (HasCreditRecord(u) /\ HasMembershipRecord(u)) =>
                  LET ct == parse_custom_datetime(credits[u].credit_pack_purchased_at)
                      mt == parse_custom_datetime(memberships[u].membership_purchased_at)
                  IN /\ IF ct # NoneTime /\ mt # NoneTime /\ StrLessEq(ct, mt)
                        THEN MirrorsCredit(e) ELSE MirrorsMembership(e)
                     /\ FirstCreditPopulated(e, credits[u])
                     /\ FirstMembershipPopulated(e, memberships[u])

CreditView(data) ==
    [i \in 1..Len(data) |->
        [user_id |-> data[i].user_id, id |-> data[i].credit_pack_id,
         at |-> data[i].credit_pack_purchased_at]]

MembershipView(data) ==
    [i \in 1..Len(data) |->
        [user_id |-> data[i].user_id, id |-> data[i].membership_id,
         at |-> data[i].membership_purchased_at]]

CreditResultView(result) ==
    [u \in UserIds |-> [id |-> result[u].credit_pack_id,
                        at |-> result[u].credit_pack_purchased_at]]

MembershipResultView(result) ==
    [u \in UserIds |-> [id |-> result[u].membership_id,
                        at |-> result[u].membership_purchased_at]]

\* The events of user u that the selector does not drop (user_id and item id
\* present).
Qualifying(view, u) ==
    {i \in 1..Len(view) : view[i].user_id = u /\ Truthy(view[i].id)}

\* An event without a real timestamp is never retained for a user who has an
\* event with a real timestamp, and is retained when it is the only event.
SentinelPolicy(view, res) ==
    \A u \in UserIds :
        LET Q == Qualifying(view, u)
            R == {i \in Q : Parsable(view[i].at)}
        IN /\ R # {} => \E i \in R : res[u].id = view[i].id
           /\ Cardinality(Q) = 1 => \A i \in Q : res[u].id = view[i].id

\* For a user whose events all have real timestamps the retained event is the
\* first event of the list that has the minimum timestamp.
EarliestRetained(view, res) ==
    \A u \in UserIds :
        LET Q == Qualifying(view, u)
            T(i) == parse_custom_datetime(view[i].at).t
        IN (Q # {} /\ \A i \in Q : Parsable(view[i].at)) =>
              \E i \in Q :
                  /\ \A j \in Q : T(i) < T(j) \/ (T(i) = T(j) /\ i <= j)
                  /\ res[u].id = view[i].id
                  /\ parse_custom_datetime(res[u].at) = parse_custom_datetime(view[i].at)

\* C4: in both selectors an event whose purchased_at is missing or unparsable
\* counts as having the maximum timestamp: it is never the retained event of
\* a user who also has an event with a real timestamp, and it is retained
\* when it is the user's only event.
C4_SentinelPolicy ==
    [][/\ (pc = "loaded" /\ pc' = "credits_done") =>
             SentinelPolicy(CreditView(credit_data), CreditResultView(credits'))
       /\ (pc = "credits_done" /\ pc' = "memberships_done") =>
             SentinelPolicy(MembershipView(membership_data),
                            MembershipResultView(memberships'))]_vars

PrimaryPath ==
    <<"process_credit_packs", "process_memberships",
      "create_client_conversion_events", "create_lead_conversions">>

\* What a finished run has called, given that the primary path comes first
\* and the fallback is read exactly when the primary expander returned
\* nothing.
FallbackStateMachine ==
    IF create_lead_conversions(client_events) # <<>>
    THEN /\ trace = PrimaryPath
         /\ fallback_file = NoFile
         /\ lead_conversions = create_lead_conversions(client_events)
    ELSE /\ fallback_file # NoFile
         /\ IF fallback_events # <<>>
            THEN trace = PrimaryPath \o <<"read_conversion_events_part2",
                                          "create_lead_conversions">>
            ELSE trace = PrimaryPath \o <<"read_conversion_events_part2">>

\* C9 (as stated): every run of main first attempts the primary path
\* (composer, then expander); the fallback loader is invoked iff the primary
\* expander yielded zero records, and then only the expander is re-run.
C9_EveryRun == pc = "done" => FallbackStateMachine

\* C9 (amended): every run of main without --part2_only first attempts the
\* primary path; the fallback loader is invoked iff the primary expander
\* yielded zero records, and then only the expander is re-run on the loaded
\* table; otherwise the run ends without reading the fallback source.
C9_FullRuns == (pc = "done" /\ ~part2_only) => FallbackStateMachine

C9_Witness ==
    /\ pc = "done"
    /\ ~part2_only
    /\ Len(users) > 0
    /\ create_lead_conversions(client_events) = <<>>
    /\ fallback_file.status = "ok"
    /\ Len(trace) = 6
    /\ lead_conversions # <<>>

\* C10: when the primary expander yields zero records and the fallback source
\* is empty, absent or unreadable, the run ends with no lead-conversion
\* output written and with the conversion-events output of the primary path
\* written.
C10_FailedOutcome ==
    (/\ pc = "done"
     /\ "create_client_conversion_events" \in Range(trace)
     /\ create_lead_conversions(client_events) = <<>>
     /\ \/ fallback_file.status \in {"absent", "unreadable"}
        \/ fallback_file.status = "ok" /\ fallback_file.rows = <<>>)
    => /\ out_leads = NotWritten
       /\ out_events.written
       /\ Len(out_events.rows) = Len(client_events)
       /\ \A i \in 1..Len(client_events) :
             /\ out_events.rows[i].user_id = client_events[i].user_id
             /\ out_events.rows[i].lead_status = client_events[i].lead_status

C10_Witness ==
    /\ pc = "done"
    /\ ~part2_only
    /\ Len(client_events) = 2
    /\ lead_conversions = <<>>
    /\ fallback_file.status = "unreadable"
    /\ out_leads = NotWritten
    /\ out_events.written
    /\ Len(out_events.rows) = 2

\* ------------------------------------- claims on the selectors' frame ---
\* C11 (as stated): the selectors leave every record of their input list as
\* it was: same fields, same values.
C11_InputUntouched ==
    [][/\ (pc = "loaded" /\ pc' = "credits_done") => credit_data' = credit_data
       /\ (pc = "credits_done" /\ pc' = "memberships_done") =>
             membership_data' = membership_data]_vars

\* What the credit selector may change in row `old`: nothing in a row it
\* skips; in the other rows only the name and source keys (added), the
\* details cell (rebuilt as {name, source}) and a missing purchased_at
\* (replaced by the 9999-12-31 text).
CreditRowFrame(old, new) ==
    IF ~Truthy(old.user_id) \/ ~Truthy(old.credit_pack_id) THEN new = old
    ELSE /\ new.user_id = old.user_id
         /\ new.credit_pack_id = old.credit_pack_id
         /\ new.credit_pack_purchased_at =
               (IF old.credit_pack_purchased_at \in {EmptyTime, NoneTime}
                THEN SentinelStr ELSE old.credit_pack_purchased_at)
         /\ new.credit_pack_name # ABSENT /\ new.credit_pack_source # ABSENT
         /\ new.credit_pack_purchase_details.kind = "dict"
         /\ new.credit_pack_purchase_details.name = new.credit_pack_name
         /\ new.credit_pack_purchase_details.source = new.credit_pack_source
         /\ old.credit_pack_purchase_details.kind = "dict" =>
               /\ new.credit_pack_name = old.credit_pack_purchase_details.name
               /\ new.credit_pack_source = old.credit_pack_purchase_details.source

MembershipRowFrame(old, new) ==
    IF ~Truthy(old.user_id) \/ ~Truthy(old.membership_id) THEN new = old
    ELSE /\ new.user_id = old.user_id
         /\ new.membership_id = old.membership_id
         /\ new.membership_purchased_at =
               (IF old.membership_purchased_at \in {EmptyTime, NoneTime}
                THEN SentinelStr ELSE old.membership_purchased_at)
         /\ new.membership_name # ABSENT /\ new.membership_source # ABSENT
         /\ new.membership_purchase_details.kind = "dict"
         /\ new.membership_purchase_details.name = new.membership_name
         /\ new.membership_purchase_details.source = new.membership_source
         /\ old.membership_purchase_details.kind = "dict" =>
               /\ new.membership_name = old.membership_purchase_details.name
               /\ new.membership_source = old.membership_purchase_details.source

\* C11 (amended): the selectors write into the records of their input list:
\* a record that is skipped is left as it was; in every other record user_id,
\* the item id and a non-empty purchased_at are left as they were, the name
\* and source keys are added, the details cell is replaced by {name, source}
\* and a missing purchased_at is replaced by the sentinel text.
C11_InputFrame ==
    [][/\ (pc = "loaded" /\ pc' = "credits_done") =>
             /\ Len(credit_data') = Len(credit_data)
             /\ \A i \in 1..Len(credit_data) :
                   CreditRowFrame(credit_data[i], credit_data'[i])
       /\ (pc = "credits_done" /\ pc' = "memberships_done") =>
             /\ Len(membership_data') = Len(membership_data)
             /\ \A i \in 1..Len(membership_data) :
                   MembershipRowFrame(membership_data[i], membership_data'[i])]_vars

C11_Witness ==
    /\ pc = "credits_done"
    /\ Len(credit_data) = 3
    /\ credit_data[1].credit_pack_id = "" /\ credit_data[1].credit_pack_name = ABSENT
    /\ credit_data[2].credit_pack_id = "c2"
    /\ credit_data[2].credit_pack_purchased_at = GarbageTime
    /\ credit_data[2].credit_pack_name = "PackA"
    /\ credit_data[3].credit_pack_id = "c3"
    /\ credit_data[3].credit_pack_purchased_at = SentinelStr
    /\ credit_data[3].credit_pack_name = "PackA"

\* -------------------------------------- claims on the fallback events ---
\* The expander has run on the rows of the fallback file.
FallbackExpanded == pc \in {"write", "done"} /\ fallback_events # <<>>

\* The records of lead_conversions that carry row e's user and purchase ids,
\* with filter f; the rows of the fallback file equal to e.
RecordsOfRow(e, f) ==
    {j \in 1..Len(lead_conversions) :
        /\ lead_conversions[j].user_id = e.user_id
        /\ lead_conversions[j].first_user_membership_id = e.first_user_membership_id
        /\ lead_conversions[j].first_credit_pack_id = e.first_credit_pack_id
        /\ lead_conversions[j].client_conversion_event_filter = f}
RowsLike(e) == {k \in 1..Len(fallback_events) : fallback_events[k] = e}

\* C12: a CLIENT row of the fallback file with a membership purchase and
\* empty credit columns yields one MEMBERSHIP record, one ALL record of type
\* MEMBERSHIP and no USER_CREDIT record; a CLIENT row with a credit purchase
\* and empty membership columns yields one USER_CREDIT record, one ALL record
\* of type USER_CREDIT and no MEMBERSHIP record.
C12_FallbackSameRules ==
    FallbackExpanded =>
        \A k \in 1..Len(fallback_events) :
            LET e == fallback_events[k]
                n == Cardinality(RowsLike(e))
                has_m == Truthy(e.first_user_membership_id)
                has_c == Truthy(e.first_credit_pack_id)
                present == IF has_m THEN "MEMBERSHIP" ELSE "USER_CREDIT"
                absent == IF has_m THEN "USER_CREDIT" ELSE "MEMBERSHIP"
            IN (e.lead_status = "CLIENT" /\ has_m # has_c) =>
                  /\ Cardinality(RecordsOfRow(e, present)) = n
                  /\ Cardinality(RecordsOfRow(e, absent)) = 0
                  /\ Cardinality(RecordsOfRow(e, "ALL")) = n
                  /\ \A j \in RecordsOfRow(e, "ALL") :
                        lead_conversions[j].client_conversion_event_type = present

\* ------------------------------------- claims on the expander's order ---
\* The expander has run; the list it ran on last.
ExpanderRan == pc \in {"expanded", "fallback_loaded", "write", "done"}
ExpanderInput == IF FallbackExpanded THEN fallback_events ELSE client_events

\* Position of a record in its group: MEMBERSHIP, USER_CREDIT, ALL.
FilterRank(r) ==
    CASE r.client_conversion_event_filter = "MEMBERSHIP" -> 1
      [] r.client_conversion_event_filter = "USER_CREDIT" -> 2
      [] OTHER -> 3

RecordsOfUser(u) == {j \in 1..Len(lead_conversions) : lead_conversions[j].user_id = u}
\* The records of user u are next to one another and run MEMBERSHIP,
\* USER_CREDIT, ALL, each at most once.
UserGroupOrdered(u) ==
    /\ \A a, b \in RecordsOfUser(u) : \A j \in a..b : j \in RecordsOfUser(u)
    /\ \A a, b \in RecordsOfUser(u) :
          a < b => FilterRank(lead_conversions[a]) < FilterRank(lead_conversions[b])

\* The events of the input list that get records, in input order.
EmitsRecords(e) ==
    /\ e.lead_status = "CLIENT"
    /\ e.first_user_membership_id # NULL \/ e.first_credit_pack_id # NULL
EmittingEvents == SelectSeq(ExpanderInput, EmitsRecords)

\* The records that open a group: the first record, and every record whose
\* user differs from the record before it or whose filter does not come
\* later in MEMBERSHIP, USER_CREDIT, ALL than that of the record before it.
GroupStarts ==
    {j \in 1..Len(lead_conversions) :
        \/ j = 1
        \/ lead_conversions[j].user_id # lead_conversions[j - 1].user_id
        \/ FilterRank(lead_conversions[j]) <= FilterRank(lead_conversions[j - 1])}

ConversionFields ==
    {"client_conversion_event_type", "client_conversion_event_id",
     "client_conversion_event_local_created_at", "client_conversion_event_name",
     "client_conversion_event_source"}

\* Record r carries event e's own conversion fields.
SameConversion(r, e) == \A k \in ConversionFields : r[k] = e[k]

====
